---- MODULE Spec2Model ----
(***************************************************************************)
(* Model of the yosys-perf drivers: thing.py (current driver) and          *)
(* analyze.py (earlier driver).  Text is modelled at the level the regular *)
(* expressions of the drivers see it: a string is a sequence of character  *)
(* codes, a line is an indentation flag and a sequence of whitespace-      *)
(* separated tokens, an output is a sequence of lines.                     *)
(***************************************************************************)
EXTENDS Integers, Sequences, FiniteSets, TLC

VARIABLES
    pc,         \* position of the driver in the run that a specification models
    design,     \* tag_for: the design name
    pairs,      \* params_from_str: the parsed --param arguments, in order
    params,     \* params_from_str: the resulting dict (insertion ordered)
    tag,        \* tag_for: the resulting tag
    output,     \* run_yosys: the combined stdout+stderr text of one invocation
    stats,      \* parse_stat / parse_output: the record parsed from output
    cell_cats,  \* the taxonomy: cell type -> "seq" | "mem" | "comb"
    ff_size,    \* --ff-size
    result,     \* run_mode_ff: the classification result
    driver,     \* main: "thing" (thing.py analyze) or "analyze" (analyze.py)
    yosys_bins, \* args.yosys: the binaries, in the order given
    design_list, \* resolve_designs: the design tags to run
    run_i,      \* main: the number of (binary, design) runs done
    all_stats,  \* main: the records collected so far
    csv,        \* CsvOut: the grids _time, _memory, _cells
    printed,    \* standard output: the tables rendered
    out_mode,   \* --output: "human" or "csv"
    stderr,     \* standard error: the messages written, in order
    tool_runs,  \* the invocations of the external tool, in order
    dump,       \* dump_cell_groups: what the tool does when asked for the dump
    tmp_path,   \* dump_cell_groups: the state of the temporary dump file
    status      \* the exit status of the program, "running" until it ends

tagVars == <<design, pairs, params, tag>>
parseVars == <<output, stats>>
ffVars == <<cell_cats, ff_size, result>>
batchVars == <<driver, yosys_bins, design_list, run_i, all_stats, csv, printed>>
envVars == <<out_mode, stderr, tool_runs, dump, tmp_path, status>>
vars == <<pc, tagVars, parseVars, ffVars, batchVars, envVars>>

\* No batch of runs is in progress.
NoBatch ==
    /\ driver = "none"
    /\ yosys_bins = <<>>
    /\ design_list = <<>>
    /\ run_i = 0
    /\ all_stats = <<>>
    /\ csv = <<>>
    /\ printed = <<>>

\* Nothing was written to standard error, the tool was not invoked, no dump
\* was asked for and the program has not ended.
NoEnv ==
    /\ out_mode = "none"
    /\ stderr = <<>>
    /\ tool_runs = <<>>
    /\ dump = "none"
    /\ tmp_path = "none"
    /\ status = "running"

(***************************************************************************)
(* Bounds of the model.                                                    *)
(***************************************************************************)
MaxParams == 3
MaxLines == 4
MaxCellLines == 3
MaxTimingLines == 3

(***************************************************************************)
(* Strings: sequences of character codes.                                  *)
(***************************************************************************)
NoStr == <<>>
str_us == <<95>>                      \* "_"
str_us2 == <<95, 95>>                 \* "__"
str_a == <<97>>                       \* "a"
str_ab == <<97, 98>>                  \* "ab"
str_b == <<98>>                       \* "b"
str_1 == <<49>>                       \* "1"
str_2 == <<50>>                       \* "2"
str_fft == <<102, 102, 116>>          \* "fft"
str_ibex == <<105, 98, 101, 120>>     \* "ibex"

\* Python's str comparison: lexicographic by code point, a proper prefix first.
RECURSIVE StrLess(_, _)
StrLess(s, t) ==
    IF t = <<>> THEN FALSE
    ELSE IF s = <<>> THEN TRUE
    ELSE IF Head(s) # Head(t) THEN Head(s) < Head(t)
    ELSE StrLess(Tail(s), Tail(t))

(***************************************************************************)
(* Python dicts: sequences of <<key, value>> with unique keys, in          *)
(* insertion order.                                                        *)
(***************************************************************************)
DictKeys(d) == {d[i][1] : i \in 1..Len(d)}
DictHas(d, k) == k \in DictKeys(d)
DictGet(d, k, dflt) ==
    IF DictHas(d, k) THEN d[CHOOSE i \in 1..Len(d) : d[i][1] = k][2] ELSE dflt
\* d[k] = v: an existing key keeps its position, a new key goes last.
DictSet(d, k, v) ==
    IF DictHas(d, k)
    THEN [i \in 1..Len(d) |-> IF d[i][1] = k THEN <<k, v>> ELSE d[i]]
    ELSE Append(d, <<k, v>>)
DictItems(d) == {d[i] : i \in 1..Len(d)}

\* The orders in which the same items can have been inserted.
InsertionOrders(d) ==
    LET n == Len(d)
        bij == {f \in [1..n -> 1..n] : \A i, j \in 1..n : f[i] = f[j] => i = j}
    IN  {[i \in 1..n |-> d[f[i]]] : f \in bij}

(***************************************************************************)
(* thing.py params_from_str, fmt_params, tag_for                           *)
(***************************************************************************)
ParamKeys == {str_a, str_ab, str_b}
ParamValues == {str_1, str_2}
Designs == {str_fft, str_ibex}

\* params_from_str: ret[lhs] = rhs for each pair, in order.
RECURSIVE params_from_str_from(_, _)
params_from_str_from(ret, ps) ==
    IF ps = <<>> THEN ret
    ELSE params_from_str_from(DictSet(ret, Head(ps)[1], Head(ps)[2]), Tail(ps))
params_from_str(ps) == params_from_str_from(<<>>, ps)

\* Python's tuple comparison of two (key, value) items.
ItemLess(x, y) ==
    IF x[1] # y[1] THEN StrLess(x[1], y[1]) ELSE StrLess(x[2], y[2])

\* sorted(): stable, ascending.
RECURSIVE SortInsert(_, _)
SortInsert(x, s) ==
    IF s = <<>> THEN <<x>>
    ELSE IF ItemLess(x, Head(s)) THEN <<x>> \o s
    ELSE <<Head(s)>> \o SortInsert(x, Tail(s))
RECURSIVE SortedItems(_)
SortedItems(items) ==
    IF items = <<>> THEN <<>>
    ELSE SortInsert(items[Len(items)], SortedItems(SubSeq(items, 1, Len(items) - 1)))

\* The loop of fmt_params over a list of items.
RECURSIVE JoinItems(_, _)
JoinItems(items, first) ==
    IF items = <<>> THEN NoStr
    ELSE (IF first THEN NoStr ELSE str_us2)
         \o Head(items)[1] \o str_us \o Head(items)[2]
         \o JoinItems(Tail(items), FALSE)

fmt_params_unsorted(p) == IF p = <<>> THEN NoStr ELSE JoinItems(p, TRUE)
fmt_params(p) == IF p = <<>> THEN NoStr ELSE JoinItems(SortedItems(p), TRUE)

tag_for(d, p) == IF p # <<>> THEN d \o str_us \o fmt_params(p) ELSE d

(***************************************************************************)
(* Specification SpecTag: the --param arguments are parsed into the        *)
(* parameter dict, then the run tag is formed.                             *)
(***************************************************************************)
RECURSIVE SeqsUpTo(_, _)
SeqsUpTo(S, n) ==
    IF n = 0 THEN {<<>>}
    ELSE LET shorter == SeqsUpTo(S, n - 1)
         IN  shorter \cup {Append(s, x) : s \in {t \in shorter : Len(t) = n - 1}, x \in S}

InitTag ==
    /\ pc = "args"
    /\ design \in Designs
    /\ pairs \in SeqsUpTo(ParamKeys \X ParamValues, MaxParams)
    /\ params = <<>>
    /\ tag = NoStr
    /\ output = <<>>
    /\ stats = <<>>
    /\ cell_cats = <<>>
    /\ ff_size = 0
    /\ result = <<>>
    /\ NoBatch
    /\ NoEnv

ParamsFromStr ==
    /\ pc = "args"
    /\ params' = params_from_str(pairs)
    /\ pc' = "params"
    /\ UNCHANGED <<design, pairs, tag, parseVars, ffVars, batchVars, envVars>>

TagFor ==
    /\ pc = "params"
    /\ tag' = tag_for(design, params)
    /\ pc' = "tagged"
    /\ UNCHANGED <<design, pairs, params, parseVars, ffVars, batchVars, envVars>>

NextTag == ParamsFromStr \/ TagFor

SpecTag == InitTag /\ [][NextTag]_vars

\* The tag the claim describes, built from the set of items alone: the item
\* with the least key first.
RECURSIVE CanonicalJoin(_)
CanonicalJoin(items) ==
    IF items = {} THEN NoStr
    ELSE LET m == CHOOSE x \in items : \A y \in items : y = x \/ StrLess(x[1], y[1])
         IN  m[1] \o str_us \o m[2]
             \o (IF items = {m} THEN NoStr ELSE str_us2 \o CanonicalJoin(items \ {m}))

\* C1: whatever the insertion order of the key/value pairs, the tag is the
\* design name, then (for a non-empty mapping) "_" and the pairs sorted by key,
\* each rendered key_value, joined by "__"; an empty mapping gives the bare
\* design name.
C1_TagOrderIndependent ==
    pc = "tagged" =>
        /\ \A q \in InsertionOrders(params) : tag_for(design, q) = tag
        /\ tag = IF params = <<>> THEN design
                 ELSE design \o str_us \o CanonicalJoin(DictItems(params))

\* C1 witness: two parameters were inserted in descending key order and tagged.
C1_Witness ==
    /\ pc = "tagged"
    /\ Len(params) >= 2
    /\ StrLess(params[2][1], params[1][1])
(***************************************************************************)
(* Text of a log.  A line is one of                                        *)
(*   toks         whitespace-separated words; ind says that whitespace     *)
(*                (indentation or an empty line) precedes the first word   *)
(*   count_marker "+----------Count including submodules." and its "|"     *)
(*   print_marker "Printing statistics."                                   *)
(*   end          "End of script."                                         *)
(*   footer       "CPU: user <user>s system <sys>s, MEM: <mem> MB peak"    *)
(*   time_spent   "Time spent: " and its "<pct>% <count>x <name> (<secs>   *)
(*                sec)" entries (none when the rest of the line is other   *)
(*                text)                                                    *)
(*   abc          "ABC: ... nd = <nd> ... lev = <lev>"                     *)
(*   and          "ABC: ... and = <n> ..."                                 *)
(* The literal text of a pattern is the kind of the line; what a pattern   *)
(* captures is kept as the string it is in the log.  No line of one word   *)
(* is followed by a line of one number, so no match spans two lines.       *)
(***************************************************************************)
w_Number == <<78, 117, 109, 98, 101, 114>>                   \* "Number"
w_of == <<111, 102>>                                         \* "of"
w_wires == <<119, 105, 114, 101, 115>>                       \* "wires"
w_wire == <<119, 105, 114, 101>>                             \* "wire"
w_bits == <<98, 105, 116, 115>>                              \* "bits"
w_public == <<112, 117, 98, 108, 105, 99>>                   \* "public"
w_ports == <<112, 111, 114, 116, 115>>                       \* "ports"
w_port == <<112, 111, 114, 116>>                             \* "port"
w_memories == <<109, 101, 109, 111, 114, 105, 101, 115>>     \* "memories"
w_memory == <<109, 101, 109, 111, 114, 121>>                 \* "memory"
w_processes == <<112, 114, 111, 99, 101, 115, 115, 101, 115>> \* "processes"
w_cells == <<99, 101, 108, 108, 115>>                        \* "cells"
w_colon == <<58>>                                            \* ":"
w_design == <<61, 61, 61>>                                   \* "==="
t_AND == <<36, 95, 65, 78, 68, 95>>                          \* "$_AND_"
t_DFF_P == <<36, 95, 68, 70, 70, 95, 80, 95>>                \* "$_DFF_P_"
t_dff == <<36, 100, 102, 102>>                               \* "$dff"
str_DFF == <<68, 70, 70>>                                    \* "DFF"
str_SDFF == <<83, 68, 70, 70>>                               \* "SDFF"
str_ff == <<36, 102, 102>>                                   \* "$ff"
d_0 == <<48>>                                                \* "0"
d_1 == <<49>>                                                \* "1"
d_2 == <<50>>                                                \* "2"
d_3 == <<51>>                                                \* "3"
d_10 == <<49, 48>>                                           \* "10"
f_1_50 == <<49, 46, 53, 48>>                                 \* "1.50"
f_0_25 == <<48, 46, 50, 53>>                                 \* "0.25"
f_120_0 == <<49, 50, 48, 46, 48>>                            \* "120.0"
f_1_2_3 == <<49, 46, 50, 46, 51>>                            \* "1.2.3"
f_0_00 == <<48, 46, 48, 48>>                                 \* "0.00"
n_abc == <<97, 98, 99>>                                      \* "abc"

ToksLine(ind, toks) == [k |-> "toks", ind |-> ind, toks |-> toks]
CountMarkerLine == [k |-> "count_marker"]
PrintMarkerLine == [k |-> "print_marker"]
EndLine == [k |-> "end"]
FooterLine(user, sys, mem) == [k |-> "footer", user |-> user, sys |-> sys, mem |-> mem]
TimeSpentLine(entries) == [k |-> "time_spent", entries |-> entries]
AbcLine(nd, lev) == [k |-> "abc", nd |-> nd, lev |-> lev]
AndLine(n) == [k |-> "and", n |-> n]

(***************************************************************************)
(* Character classes and the conversions int() and float().                *)
(***************************************************************************)
IsDigit(c) == c \in 48..57
\* \w: letters, digits and the underscore.
IsWordChar(c) == IsDigit(c) \/ c \in 65..90 \/ c \in 97..122 \/ c = 95
\* \d+
IsDigits(s) == s # <<>> /\ \A i \in 1..Len(s) : IsDigit(s[i])
\* [\d.]+
IsFloatLexeme(s) == s # <<>> /\ \A i \in 1..Len(s) : IsDigit(s[i]) \/ s[i] = 46
\* \$_?\w+
IsCellToken(s) ==
    /\ Len(s) >= 2
    /\ s[1] = 36
    /\ \A i \in 2..Len(s) : IsWordChar(s[i])

\* "sub in s"
Contains(sub, s) ==
    \E i \in 0..(Len(s) - Len(sub)) : SubSeq(s, i + 1, i + Len(sub)) = sub

\* int() of a string of digits.
RECURSIVE ToInt(_)
ToInt(s) ==
    IF s = <<>> THEN 0
    ELSE 10 * ToInt(SubSeq(s, 1, Len(s) - 1)) + (s[Len(s)] - 48)

\* float() accepts a [\d.]+ string with at most one point and a digit, and
\* raises ValueError on any other.
FloatOk(s) ==
    /\ Cardinality({i \in 1..Len(s) : s[i] = 46}) <= 1
    /\ \E i \in 1..Len(s) : IsDigit(s[i])

\* The value of float(), in hundredths; the logs carry at most two decimals.
ToFloat(s) ==
    LET dots == {i \in 1..Len(s) : s[i] = 46}
        dot == IF dots = {} THEN Len(s) + 1 ELSE CHOOSE i \in dots : TRUE
        whole == SubSeq(s, 1, dot - 1)
        frac == SubSeq(s, dot + 1, Len(s))
        frac2 == SubSeq(frac \o <<48, 48>>, 1, 2)
    IN  100 * ToInt(whole) + ToInt(frac2)

(***************************************************************************)
(* The record a parser returns: a function from the keys that are present. *)
(* A parser that raises returns Raised instead.                            *)
(***************************************************************************)
EmptyStats == <<>>
Put(st, key, v) == (key :> v) @@ st
Has(st, key) == key \in DOMAIN st
Raised == [exception |-> "ValueError"]

\* The indices of s that satisfy P, ascending, and the least of them (0: none).
FirstIndex(s, P(_)) ==
    IF \E i \in 1..Len(s) : P(s[i])
    THEN CHOOSE i \in 1..Len(s) : P(s[i]) /\ \A j \in 1..(i - 1) : ~P(s[j])
    ELSE 0

(***************************************************************************)
(* The statistics section: re.search of the primary marker, then of the    *)
(* secondary one; the section runs to the first "End of script" after the  *)
(* marker, or to the end of the text.                                      *)
(***************************************************************************)
IsCountMarker(l) == l.k = "count_marker"
IsPrintMarker(l) == l.k = "print_marker"
IsEnd(l) == l.k = "end"

SectionMarker(out) ==
    IF FirstIndex(out, IsCountMarker) # 0 THEN FirstIndex(out, IsCountMarker)
    ELSE FirstIndex(out, IsPrintMarker)

\* match.group(1), as lines.  The \s* after the marker takes the whitespace
\* before the first word of the section: its first line has none left.
Summary(out) ==
    LET m == SectionMarker(out)
        rest == SubSeq(out, m + 1, Len(out))
        e == FirstIndex(rest, IsEnd)
    IN  IF e = 0 THEN rest ELSE SubSeq(rest, 1, e - 1)

\* ^\s+ at line i of the section.
LeadingSpace(summary, i) ==
    /\ i > 1
    /\ summary[i].k = "toks"
    /\ summary[i].ind

(***************************************************************************)
(* The labelled counts, in the order of the pattern lists.                 *)
(***************************************************************************)
Labels == <<
    [name |-> "wires", words |-> <<w_wires>>],
    [name |-> "wire_bits", words |-> <<w_wire, w_bits>>],
    [name |-> "public_wires", words |-> <<w_public, w_wires>>],
    [name |-> "public_wire_bits", words |-> <<w_public, w_wire, w_bits>>],
    [name |-> "ports", words |-> <<w_ports>>],
    [name |-> "port_bits", words |-> <<w_port, w_bits>>],
    [name |-> "memories", words |-> <<w_memories>>],
    [name |-> "memory_bits", words |-> <<w_memory, w_bits>>],
    [name |-> "processes", words |-> <<w_processes>>],
    [name |-> "cells", words |-> <<w_cells>>] >>

CountKeys == {Labels[i].name : i \in 1..Len(Labels)}

\* "<words>:" as tokens: the colon is part of the last word.
WithColon(words) ==
    [i \in 1..Len(words) |-> IF i = Len(words) THEN words[i] \o w_colon ELSE words[i]]

\* ^\s*Number of <words>:\s+(\d+)\s*$
VerboseMatch(l, words) ==
    /\ l.k = "toks"
    /\ Len(l.toks) = Len(words) + 3
    /\ SubSeq(l.toks, 1, Len(words) + 2) = <<w_Number, w_of>> \o WithColon(words)
    /\ IsDigits(l.toks[Len(l.toks)])

\* The pattern derived by the two replace() calls: ^\s*<words>\s+(\d+)\s*$
ShortMatch(l, words) ==
    /\ l.k = "toks"
    /\ Len(l.toks) = Len(words) + 1
    /\ SubSeq(l.toks, 1, Len(words)) = words
    /\ IsDigits(l.toks[Len(l.toks)])

\* analyze.py: ^\s*(\d+)\s+<words>\s*$
CountFirstMatch(l, words) ==
    /\ l.k = "toks"
    /\ Len(l.toks) = Len(words) + 1
    /\ SubSeq(l.toks, 2, Len(l.toks)) = words
    /\ IsDigits(l.toks[1])
(***************************************************************************)
(* thing.py parse_stat                                                     *)
(***************************************************************************)
\* The loop over the pattern list: the verbose form, else the derived short one.
\* stats[name] = int(m.group(1)) for the match at line m of the section, if any;
\* the number is the token at position pos (0: the last).
StoreCount(st, name, summary, m, pos) ==
    IF m = 0 THEN st
    ELSE Put(st, name,
             ToInt(summary[m].toks[IF pos = 0 THEN Len(summary[m].toks) ELSE pos]))

FirstVerbose(summary, words) ==
    LET IsVerbose(l) == VerboseMatch(l, words) IN FirstIndex(summary, IsVerbose)
FirstShort(summary, words) ==
    LET IsShort(l) == ShortMatch(l, words) IN FirstIndex(summary, IsShort)
FirstOf(v, s) == IF v # 0 THEN v ELSE s

RECURSIVE LabelledCounts(_, _, _)
LabelledCounts(st, summary, i) ==
    IF i > Len(Labels) THEN st
    ELSE LabelledCounts(
             StoreCount(st, Labels[i].name, summary,
                        FirstOf(FirstVerbose(summary, Labels[i].words),
                                FirstShort(summary, Labels[i].words)), 0),
             summary, i + 1)

\* ^\s+(\S+)\s+(\d+)\s*$
CellUsageMatch(summary, i) ==
    /\ LeadingSpace(summary, i)
    /\ Len(summary[i].toks) = 2
    /\ IsDigits(summary[i].toks[2])

\* cells[name] = count, for every match in order.
RECURSIVE CellUsage(_, _, _)
CellUsage(cells, summary, i) ==
    IF i > Len(summary) THEN cells
    ELSE CellUsage(
             IF CellUsageMatch(summary, i)
             THEN DictSet(cells, summary[i].toks[1], ToInt(summary[i].toks[2]))
             ELSE cells,
             summary, i + 1)

\* if match: the labelled counts and stats["cells_breakdown"] = cells.
SummaryStats(summary) ==
    Put(LabelledCounts(EmptyStats, summary, 1),
        "cells_breakdown", CellUsage(<<>>, summary, 1))
SectionStats(out) ==
    IF SectionMarker(out) = 0 THEN EmptyStats ELSE SummaryStats(Summary(out))

IsFooter(l) == l.k = "footer"
IsTimeSpent(l) == l.k = "time_spent"

\* The CPU/MEM footer: the first match, converted with float().
FooterValues(st, user, sys, mem) ==
    Put(Put(Put(Put(st, "user_time", user), "sys_time", sys),
            "time", user + sys), "mem_mb", mem)
FooterOf(st, l) ==
    IF ~(FloatOk(l.user) /\ FloatOk(l.sys) /\ FloatOk(l.mem)) THEN Raised
    ELSE FooterValues(st, ToFloat(l.user), ToFloat(l.sys), ToFloat(l.mem))
FooterAt(st, out, i) == IF i = 0 THEN st ELSE FooterOf(st, out[i])
FooterStats(st, out) == FooterAt(st, out, FirstIndex(out, IsFooter))

\* "Time spent": the first such line; top_times is stored whenever it matches.
TopTimes(entries) ==
    [j \in 1..Len(entries) |->
        <<entries[j].name, ToInt(entries[j].pct),
          ToInt(entries[j].count), ToInt(entries[j].secs)>>]
TimeSpentAt(st, out, i) ==
    IF i = 0 THEN st ELSE Put(st, "top_times", TopTimes(out[i].entries))
TimeSpentStats(st, out) == TimeSpentAt(st, out, FirstIndex(out, IsTimeSpent))

\* The ABC statistics, one match per abc line, in order.
\* stats.get(key, 0)
GetOr0(st, key) == IF Has(st, key) THEN st[key] ELSE 0
\* stats["abc_nd"] = stats.get("abc_nd", 0) + nd
AbcNd(st, nd) == Put(st, "abc_nd", GetOr0(st, "abc_nd") + nd)
\* if lev > stats.get("abc_lev", 0): stats["abc_lev"] = lev
AbcLev(st, lev) == IF lev > GetOr0(st, "abc_lev") THEN Put(st, "abc_lev", lev) ELSE st

RECURSIVE AbcStats(_, _, _)
AbcStats(st, out, i) ==
    IF i > Len(out) THEN st
    ELSE IF out[i].k # "abc" THEN AbcStats(st, out, i + 1)
    ELSE AbcStats(AbcLev(AbcNd(st, ToInt(out[i].nd)), ToInt(out[i].lev)), out, i + 1)

\* What follows the footer: an exception of float() has left the function.
AfterFooter(st, out) ==
    IF Has(st, "exception") THEN Raised
    ELSE AbcStats(TimeSpentStats(st, out), out, 1)

parse_stat(out) == AfterFooter(FooterStats(SectionStats(out), out), out)

(***************************************************************************)
(* analyze.py parse_output                                                 *)
(***************************************************************************)
FirstCountFirst(summary, words) ==
    LET IsCount(l) == CountFirstMatch(l, words) IN FirstIndex(summary, IsCount)

RECURSIVE CountFirstCounts(_, _, _)
CountFirstCounts(st, summary, i) ==
    IF i > Len(Labels) THEN st
    ELSE CountFirstCounts(
             StoreCount(st, Labels[i].name, summary,
                        FirstCountFirst(summary, Labels[i].words), 1),
             summary, i + 1)

\* ^\s+(\d+)\s+(\$_?\w+)\s*$
CellCountMatch(summary, i) ==
    /\ LeadingSpace(summary, i)
    /\ Len(summary[i].toks) = 2
    /\ IsDigits(summary[i].toks[1])
    /\ IsCellToken(summary[i].toks[2])

RECURSIVE CellCounts(_, _, _)
CellCounts(cells, summary, i) ==
    IF i > Len(summary) THEN cells
    ELSE CellCounts(
             IF CellCountMatch(summary, i)
             THEN DictSet(cells, summary[i].toks[2], ToInt(summary[i].toks[1]))
             ELSE cells,
             summary, i + 1)

\* "DFF" in cell or "SDFF" in cell or "$ff" in cell
IsFfName(cell) ==
    Contains(str_DFF, cell) \/ Contains(str_SDFF, cell) \/ Contains(str_ff, cell)

RECURSIVE FfCount(_)
FfCount(cells) ==
    IF cells = <<>> THEN 0
    ELSE (IF IsFfName(Head(cells)[1]) THEN Head(cells)[2] ELSE 0) + FfCount(Tail(cells))

RECURSIVE LogicCount(_)
LogicCount(cells) ==
    IF cells = <<>> THEN 0
    ELSE (IF IsFfName(Head(cells)[1]) THEN 0 ELSE Head(cells)[2]) + LogicCount(Tail(cells))

\* stats["cells_breakdown"], stats["ff_count"], stats["logic_count"]
CellStats(st, cells) ==
    Put(Put(Put(st, "cells_breakdown", cells),
            "ff_count", FfCount(cells)), "logic_count", LogicCount(cells))
OutputSummaryStats(summary) ==
    CellStats(CountFirstCounts(EmptyStats, summary, 1), CellCounts(<<>>, summary, 1))
OutputSectionStats(out) ==
    IF SectionMarker(out) = 0 THEN EmptyStats ELSE OutputSummaryStats(Summary(out))

parse_output(out) == AfterFooter(FooterStats(OutputSectionStats(out), out), out)

(***************************************************************************)
(* Specification SpecParse: a log is parsed by parse_stat (thing.py) or by *)
(* parse_output (analyze.py).                                              *)
(***************************************************************************)
ParseLines == {
    PrintMarkerLine,
    CountMarkerLine,
    EndLine,
    ToksLine(TRUE, <<w_Number, w_of, w_cells \o w_colon, d_3>>),
    ToksLine(TRUE, <<t_AND, d_1>>),
    ToksLine(TRUE, <<t_AND, d_2>>),
    ToksLine(TRUE, <<d_1, t_DFF_P>>),
    ToksLine(TRUE, <<d_2, t_DFF_P>>),
    ToksLine(TRUE, <<d_3, w_cells>>),
    FooterLine(f_1_50, f_0_25, f_120_0),
    FooterLine(f_1_2_3, f_0_25, f_120_0),
    TimeSpentLine(<<[pct |-> d_10, count |-> d_2, name |-> n_abc, secs |-> d_3]>>),
    TimeSpentLine(<<>>),
    AbcLine(d_2, d_0),
    AbcLine(d_1, d_3) }

InitParse ==
    /\ pc = "run"
    /\ design = NoStr
    /\ pairs = <<>>
    /\ params = <<>>
    /\ tag = NoStr
    /\ output \in SeqsUpTo(ParseLines, MaxLines)
    /\ stats = EmptyStats
    /\ cell_cats = <<>>
    /\ ff_size = 0
    /\ result = <<>>
    /\ NoBatch
    /\ NoEnv

ParseStat ==
    /\ pc = "run"
    /\ stats' = parse_stat(output)
    /\ pc' = "parse_stat"
    /\ UNCHANGED <<tagVars, output, ffVars, batchVars, envVars>>

ParseOutput ==
    /\ pc = "run"
    /\ stats' = parse_output(output)
    /\ pc' = "parse_output"
    /\ UNCHANGED <<tagVars, output, ffVars, batchVars, envVars>>

NextParse == ParseStat \/ ParseOutput

SpecParse == InitParse /\ [][NextParse]_vars

Parsed == pc \in {"parse_stat", "parse_output"}
(***************************************************************************)
(* thing.py classify_cells, parse_abc_area, run_mode_ff                    *)
(***************************************************************************)
FfSizeDefault == 6
Cats == {"seq", "mem", "comb"}

\* cell_cats.get(cell_type, "other")
CategoryOf(cats, cell_type) ==
    IF cell_type \in DOMAIN cats THEN cats[cell_type] ELSE "other"

AddTotal_overwrite(totals, cat, count) == [totals EXCEPT ![cat] = count]
\* totals[cat] += count
AddTotal(totals, cat, count) == [totals EXCEPT ![cat] = @ + count]

\* The loop of classify_cells over cells_breakdown.items().
RECURSIVE classify_from(_, _, _)
classify_from(acc, items, cats) ==
    IF items = <<>> THEN acc
    ELSE LET cell_type == Head(items)[1]
             count == Head(items)[2]
             cat == CategoryOf(cats, cell_type)
         IN  classify_from(
                 [totals |-> AddTotal(acc.totals, cat, count),
                  by_type |-> [acc.by_type EXCEPT ![cat] = DictSet(@, cell_type, count)]],
                 Tail(items), cats)

classify_cells(cells_breakdown, cats) ==
    classify_from(
        [totals |-> [seq |-> 0, mem |-> 0, comb |-> 0, other |-> 0],
         by_type |-> [seq |-> <<>>, mem |-> <<>>, comb |-> <<>>, other |-> <<>>]],
        cells_breakdown, cats)

\* The sum of the "and = N" matches.
RECURSIVE parse_abc_area(_)
parse_abc_area(out) ==
    IF out = <<>> THEN 0
    ELSE (IF Head(out).k = "and" THEN ToInt(Head(out).n) ELSE 0) + parse_abc_area(Tail(out))

\* A float that is the quotient of two integers, kept exact.
Ratio(num, den) == [num |-> num, den |-> den]
RatioZero == Ratio(0, 1)

AreaEstimate_logic_only(seq_count, abc_area, size) ==
    [ff_area |-> seq_count * size,
     total_area |-> abc_area,
     ff_area_pct |-> IF abc_area > 0 THEN Ratio(seq_count * size * 100, abc_area)
                     ELSE RatioZero]
\* ff_area, total_area, ff_area_pct
AreaEstimate(seq_count, abc_area, size) ==
    LET ff_area == seq_count * size
        total_area == abc_area + ff_area
    IN  [ff_area |-> ff_area,
         total_area |-> total_area,
         ff_area_pct |-> IF total_area > 0 THEN Ratio(ff_area * 100, total_area)
                         ELSE RatioZero]

\* run_mode_ff once the artifact exists: the log is parsed, classified and the
\* area estimated.  An exception of parse_stat propagates.
\* stats.get("cells_breakdown", {})
BreakdownOf(st) == IF Has(st, "cells_breakdown") THEN st["cells_breakdown"] ELSE <<>>

TotalCells_seq_comb(totals) == totals.seq + totals.comb
\* total_cells = sum(totals.values())
TotalCells(totals) == totals.seq + totals.mem + totals.comb + totals.other

\* The dict run_mode_ff returns.
FfResult(tg, totals, by_type, total_cells, abc_area, area) ==
    [design |-> tg,
     seq |-> totals.seq,
     mem |-> totals.mem,
     comb |-> totals.comb,
     other |-> totals.other,
     total |-> total_cells,
     ratio |-> IF total_cells > 0 THEN Ratio(totals.seq, total_cells) ELSE RatioZero,
     abc_area |-> abc_area,
     ff_area |-> area.ff_area,
     total_area |-> area.total_area,
     ff_area_pct |-> area.ff_area_pct,
     seq_types |-> by_type.seq,
     mem_types |-> by_type.mem,
     other_types |-> by_type.other,
     comb_types |-> by_type.comb]

FfClassified(tg, c, abc_area, size) ==
    FfResult(tg, c.totals, c.by_type, TotalCells(c.totals), abc_area,
             AreaEstimate(c.totals.seq, abc_area, size))

FfParsed(st, out, tg, cats, size) ==
    IF Has(st, "exception") THEN Raised
    ELSE FfClassified(tg, classify_cells(BreakdownOf(st), cats), parse_abc_area(out), size)

\* run_mode_ff once the artifact exists: the log is parsed, classified and the
\* area estimated.  An exception of parse_stat propagates.
run_mode_ff(out, tg, cats, size) == FfParsed(parse_stat(out), out, tg, cats, size)

(***************************************************************************)
(* Specification SpecFf: one log of a synthesis run with its statistics    *)
(* section is classified by run_mode_ff (thing.py) under a taxonomy, or    *)
(* split by parse_output (analyze.py).                                     *)
(***************************************************************************)
n_top == <<116, 111, 112>>                                   \* "top"
DesignHeaderLine == ToksLine(FALSE, <<w_design, n_top, w_design>>)

CellTypes == {t_AND, t_DFF_P, t_dff}
FfSizes == {0, FfSizeDefault}

FfLines == {
    ToksLine(TRUE, <<t_AND, d_1>>),
    ToksLine(TRUE, <<t_DFF_P, d_2>>),
    ToksLine(TRUE, <<t_dff, d_3>>),
    ToksLine(TRUE, <<d_1, t_dff>>),
    AndLine(d_10) }

InitFf ==
    /\ pc = "run"
    /\ design = NoStr
    /\ pairs = <<>>
    /\ params = <<>>
    /\ tag = str_fft
    /\ \E b \in SeqsUpTo(FfLines, MaxCellLines) :
           output = <<PrintMarkerLine, DesignHeaderLine>> \o b
    /\ stats = EmptyStats
    /\ \E S \in SUBSET CellTypes : cell_cats \in [S -> Cats]
    /\ ff_size \in FfSizes
    /\ result = <<>>
    /\ NoBatch
    /\ NoEnv

RunModeFf ==
    /\ pc = "run"
    /\ result' = run_mode_ff(output, tag, cell_cats, ff_size)
    /\ pc' = "ff"
    /\ UNCHANGED <<tagVars, parseVars, cell_cats, ff_size, batchVars, envVars>>

NextFf == RunModeFf \/ ParseOutput

SpecFf == InitFf /\ [][NextFf]_vars

\* The breakdown run_mode_ff hands to classify_cells.
FfBreakdown == BreakdownOf(parse_stat(output))

RECURSIVE SumCounts(_)
SumCounts(cells) ==
    IF cells = <<>> THEN 0 ELSE Head(cells)[2] + SumCounts(Tail(cells))

\* C2: the four category totals sum to the sum of all counts of the input
\* breakdown.
C2_TotalsSumToBreakdown ==
    pc = "ff" =>
        result.seq + result.mem + result.comb + result.other = SumCounts(FfBreakdown)

\* C2 witness: a breakdown of two cell types of one category was classified.
C2_Witness ==
    /\ pc = "ff"
    /\ \E cat \in {"seq_types", "mem_types", "comb_types", "other_types"} :
           Len(result[cat]) >= 2
TypesKey(cat) ==
    CASE cat = "seq" -> "seq_types"
      [] cat = "mem" -> "mem_types"
      [] cat = "comb" -> "comb_types"
      [] OTHER -> "other_types"

\* The sum of the counts of the cell types that the taxonomy puts in cat.
RECURSIVE SumCategory(_, _, _)
SumCategory(cells, cats, cat) ==
    IF cells = <<>> THEN 0
    ELSE (IF CategoryOf(cats, Head(cells)[1]) = cat THEN Head(cells)[2] ELSE 0)
         + SumCategory(Tail(cells), cats, cat)

\* classify_cells files every cell type under the taxonomy's category, or under
\* "other" when the taxonomy does not have it, with its original count.
ClassifyFollowsTaxonomy ==
    pc = "ff" =>
        \A i \in 1..Len(FfBreakdown) :
            \A cat \in Cats \cup {"other"} :
                IF cat = CategoryOf(cell_cats, FfBreakdown[i][1])
                THEN DictGet(result[TypesKey(cat)], FfBreakdown[i][1], -1) = FfBreakdown[i][2]
                ELSE ~DictHas(result[TypesKey(cat)], FfBreakdown[i][1])

\* C3: the category of a cell type is the taxonomy's ("other" when absent),
\* never decided by the spelling of its name, in classify_cells and in the
\* ff_count/logic_count split of parse_output alike.
C3_TaxonomyDecidesCategory ==
    /\ ClassifyFollowsTaxonomy
    /\ (pc = "parse_output" /\ Has(stats, "ff_count")) =>
           /\ stats["ff_count"] = SumCategory(stats["cells_breakdown"], cell_cats, "seq")
           /\ stats["logic_count"] = SumCategory(stats["cells_breakdown"], cell_cats, "comb")

\* The netlist size the tool reports: the "and = N" values of the log.
RECURSIVE ReportedArea(_, _)
ReportedArea(out, i) ==
    IF i > Len(out) THEN 0
    ELSE (IF out[i].k = "and" THEN ToInt(out[i].n) ELSE 0) + ReportedArea(out, i + 1)

HasKind(out, kind) == \E i \in 1..Len(out) : out[i].k = kind
RaisedError == Has(stats, "exception")
NoSection == ~HasKind(output, "count_marker") /\ ~HasKind(output, "print_marker")

NoSectionKeys ==
    /\ \A key \in CountKeys \cup {"cells_breakdown"} : ~Has(stats, key)
    /\ \A key \in {"user_time", "sys_time", "time", "mem_mb"} :
           Has(stats, key) <=> HasKind(output, "footer")
    /\ Has(stats, "time") => stats["time"] = stats["user_time"] + stats["sys_time"]
    /\ Has(stats, "top_times") <=> HasKind(output, "time_spent")

\* C6: for a text without either section marker the parser does not raise, the
\* record has none of the count-valued keys, the footer keys exactly when the
\* CPU/MEM footer is in the text and the top-time key exactly when a
\* "Time spent:" line is.
C6_NoSectionRecord ==
    (Parsed /\ NoSection) => (~RaisedError /\ NoSectionKeys)

\* What holds of C6 when float() accepts the footer.
NoSectionKeysUnlessRaised ==
    (Parsed /\ NoSection /\ ~RaisedError) => NoSectionKeys

\* A line of the section that the parser in use matches for a label.
LabelMatched(words) ==
    /\ SectionMarker(output) # 0
    /\ IF pc = "parse_stat"
       THEN FirstVerbose(Summary(output), words) # 0 \/ FirstShort(Summary(output), words) # 0
       ELSE FirstCountFirst(Summary(output), words) # 0

\* C7: a key is in the record only if at least one textual match for it was
\* found; no category is stored as an empty collection or as a zero that
\* stands for no match.
C7_KeyOnlyIfMatched ==
    (Parsed /\ ~RaisedError) =>
        /\ \A i \in 1..Len(Labels) :
               Has(stats, Labels[i].name) => LabelMatched(Labels[i].words)
        /\ Has(stats, "cells_breakdown") => stats["cells_breakdown"] # <<>>
        /\ Has(stats, "ff_count") => stats["cells_breakdown"] # <<>>
        /\ Has(stats, "logic_count") => stats["cells_breakdown"] # <<>>
        /\ Has(stats, "top_times") => stats["top_times"] # <<>>
        /\ Has(stats, "abc_nd") => HasKind(output, "abc")
        /\ Has(stats, "abc_lev") => HasKind(output, "abc")

\* The sum of the counts of the section's lines for one cell-type token, by the
\* pattern of the parser in use.
RECURSIVE SumCellLines(_, _, _, _)
SumCellLines(summary, i, name, thing) ==
    IF i > Len(summary) THEN 0
    ELSE (IF thing
          THEN (IF CellUsageMatch(summary, i) /\ summary[i].toks[1] = name
                THEN ToInt(summary[i].toks[2]) ELSE 0)
          ELSE (IF CellCountMatch(summary, i) /\ summary[i].toks[2] = name
                THEN ToInt(summary[i].toks[1]) ELSE 0))
         + SumCellLines(summary, i + 1, name, thing)

\* C8: the breakdown holds, for each cell-type token, the sum of the counts of
\* all lines of the section for that token.
C8_DuplicatesSummed ==
    (Parsed /\ ~RaisedError /\ Has(stats, "cells_breakdown")) =>
        \A i \in 1..Len(stats["cells_breakdown"]) :
            stats["cells_breakdown"][i][2]
                = SumCellLines(Summary(output), 1, stats["cells_breakdown"][i][1],
                               pc = "parse_stat")

AbcLines(out) == {i \in 1..Len(out) : out[i].k = "abc"}
RECURSIVE NdSum(_, _)
NdSum(out, i) ==
    IF i > Len(out) THEN 0
    ELSE (IF out[i].k = "abc" THEN ToInt(out[i].nd) ELSE 0) + NdSum(out, i + 1)
LevMax(out) ==
    CHOOSE m \in {ToInt(out[i].lev) : i \in AbcLines(out)} :
        \A i \in AbcLines(out) : ToInt(out[i].lev) <= m

\* C9: with at least one ABC match abc_nd is the sum of the nd values and
\* abc_lev the maximum of the lev values; with none both keys are absent.
C9_AbcSumAndMax ==
    (Parsed /\ ~RaisedError) =>
        IF AbcLines(output) = {}
        THEN ~Has(stats, "abc_nd") /\ ~Has(stats, "abc_lev")
        ELSE /\ Has(stats, "abc_nd") /\ stats["abc_nd"] = NdSum(output, 1)
             /\ Has(stats, "abc_lev") /\ stats["abc_lev"] = LevMax(output)

\* What holds of C9: abc_nd is the sum; abc_lev is the maximum when some lev
\* is positive and is absent when every lev is 0.
AbcSumAndPositiveMax ==
    (Parsed /\ ~RaisedError) =>
        IF AbcLines(output) = {}
        THEN ~Has(stats, "abc_nd") /\ ~Has(stats, "abc_lev")
        ELSE /\ Has(stats, "abc_nd") /\ stats["abc_nd"] = NdSum(output, 1)
             /\ IF LevMax(output) > 0
                THEN Has(stats, "abc_lev") /\ stats["abc_lev"] = LevMax(output)
                ELSE ~Has(stats, "abc_lev")
(***************************************************************************)
(* Paths.  A path is the sequence of its parts; Path(".") has none.        *)
(***************************************************************************)
str_slash == <<47>>                                          \* "/"
str_dot == <<46>>                                            \* "."
p_a_y1 == <<<<97>>, <<121, 49>>>>                            \* "a/y1"
p_b_y2 == <<<<98>>, <<121, 50>>>>                            \* "b/y2"
str_bar == <<98, 97, 114>>                                   \* "bar"
str_foo == <<102, 111, 111>>                                 \* "foo"

\* str(path)
RECURSIVE JoinParts(_)
JoinParts(parts) ==
    IF parts = <<>> THEN NoStr
    ELSE IF Len(parts) = 1 THEN parts[1]
    ELSE parts[1] \o str_slash \o JoinParts(Tail(parts))
PathStr(parts) == IF parts = <<>> THEN str_dot ELSE JoinParts(parts)

\* The order of pure paths: that of their lists of parts.
RECURSIVE PathLess(_, _)
PathLess(a, b) ==
    IF b = <<>> THEN FALSE
    ELSE IF a = <<>> THEN TRUE
    ELSE IF Head(a) # Head(b) THEN StrLess(Head(a), Head(b))
    ELSE PathLess(Tail(a), Tail(b))

\* sorted() of a set of strings and of a set of paths.
RECURSIVE SortStrs(_)
SortStrs(S) ==
    IF S = {} THEN <<>>
    ELSE LET m == CHOOSE x \in S : \A y \in S : ~StrLess(y, x)
         IN  <<m>> \o SortStrs(S \ {m})
RECURSIVE SortPaths(_)
SortPaths(S) ==
    IF S = {} THEN <<>>
    ELSE LET m == CHOOSE x \in S : \A y \in S : ~PathLess(y, x)
         IN  <<m>> \o SortPaths(S \ {m})

\* The loop of common_parent over zip(*parts): the leading positions at which
\* all paths have the same part.
RECURSIVE CommonParts(_, _)
CommonParts(paths, i) ==
    IF \E j \in 1..Len(paths) : Len(paths[j]) < i THEN <<>>
    ELSE IF \E j \in 1..Len(paths) : paths[j][i] # paths[1][i] THEN <<>>
    ELSE <<paths[1][i]>> \o CommonParts(paths, i + 1)

common_parent(paths) == IF paths = <<>> THEN <<>> ELSE CommonParts(paths, 1)

\* path.relative_to(root), root being a leading part of path.
relative_to(path, root) == SubSeq(path, Len(root) + 1, Len(path))

(***************************************************************************)
(* Number formatting.                                                      *)
(***************************************************************************)
\* Python's None; no number of the model is negative.
None == -1

RECURSIVE IntToStr(_)
IntToStr(n) ==
    IF n < 10 THEN <<48 + n>> ELSE IntToStr(n \div 10) \o <<48 + (n % 10)>>

\* f"{t:.2f}" of a float kept in hundredths.
Fmt2f(h) == IntToStr(h \div 100) \o str_dot \o <<48 + ((h \div 10) % 10), 48 + (h % 10)>>
\* f"{m:.1f}"; the memory figures of the model have one decimal.
Fmt1f(h) == IntToStr(h \div 100) \o str_dot \o <<48 + ((h \div 10) % 10)>>

FormatAs(v, fmt) ==
    CASE fmt = "2f" -> Fmt2f(v)
      [] fmt = "1f" -> Fmt1f(v)
      [] OTHER -> IntToStr(v)

\* f"{v:...}" if v else "": None and 0 are both false.
CellText(v, fmt) == IF v = None \/ v = 0 THEN NoStr ELSE FormatAs(v, fmt)

(***************************************************************************)
(* thing.py CsvOut                                                         *)
(***************************************************************************)
CsvOutInit == [time |-> <<>>, memory |-> <<>>, cells |-> <<>>]

\* stats.get(key)
GetOrNone(st, key) == IF Has(st, key) THEN st[key] ELSE None

\* self._grid[Path(yosys), design] = v, if v is not None
GridStore(grid, st, v) ==
    IF v = None THEN grid ELSE DictSet(grid, <<st["yosys"], st["design"]>>, v)

add_stats(c, st) ==
    [time |-> GridStore(c.time, st, GetOrNone(st, "time")),
     memory |-> GridStore(c.memory, st, GetOrNone(st, "mem_mb")),
     cells |-> GridStore(c.cells, st, GetOrNone(st, "cells"))]

RECURSIVE add_all_stats(_, _)
add_all_stats(c, sts) ==
    IF sts = <<>> THEN c ELSE add_all_stats(add_stats(c, Head(sts)), Tail(sts))

\* One table: its name, the binaries of its columns, their header labels and
\* one row per design.
GridTable(name, grid, fmt, yosyes, designs, ys_root) ==
    [name |-> name,
     cols |-> yosyes,
     header |-> [i \in 1..Len(yosyes) |-> PathStr(relative_to(yosyes[i], ys_root))],
     rows |-> [j \in 1..Len(designs) |->
                  [design |-> designs[j],
                   texts |-> [i \in 1..Len(yosyes) |->
                                 CellText(DictGet(grid, <<yosyes[i], designs[j]>>, None),
                                          fmt)]]]]

CsvTables(c, yosyes, designs, ys_root) ==
    <<GridTable("time", c.time, "2f", yosyes, designs, ys_root),
      GridTable("memory", c.memory, "1f", yosyes, designs, ys_root)>>
    \o (IF c.cells # <<>>
        THEN <<GridTable("cells", c.cells, "d", yosyes, designs, ys_root)>>
        ELSE <<>>)

CsvSorted(c, yosyes, designs) ==
    IF yosyes = <<>> THEN <<>>
    ELSE CsvTables(c, yosyes, designs, common_parent(yosyes))

\* CsvOut.out
CsvOut_out(c) ==
    IF c.time = <<>> /\ c.memory = <<>> THEN <<>>
    ELSE CsvSorted(c, SortPaths({key[1] : key \in DictKeys(c.time)}),
                   SortStrs({key[2] : key \in DictKeys(c.time)}))

(***************************************************************************)
(* analyze.py print_csv                                                    *)
(***************************************************************************)
\* by_design[design][yosys]: the last record of the pair, {} when there is none.
PairRecords(sts, d, ys) ==
    {i \in 1..Len(sts) : sts[i]["design"] = d /\ sts[i]["yosys"] = ys}
LastOf(sts, idx) ==
    IF idx = {} THEN EmptyStats ELSE sts[CHOOSE i \in idx : \A j \in idx : j <= i]
ByDesign(sts, d, ys) == LastOf(sts, PairRecords(sts, d, ys))

StatsTable(name, key, fmt, sts, bins, designs, ys_root) ==
    [name |-> name,
     cols |-> bins,
     header |-> [i \in 1..Len(bins) |-> PathStr(relative_to(bins[i], ys_root))],
     rows |-> [j \in 1..Len(designs) |->
                  [design |-> designs[j],
                   texts |-> [i \in 1..Len(bins) |->
                                 CellText(GetOrNone(ByDesign(sts, designs[j], bins[i]), key),
                                          fmt)]]]]

PrintTables(sts, bins, designs, ys_root) ==
    <<StatsTable("time", "time", "2f", sts, bins, designs, ys_root),
      StatsTable("memory", "mem_mb", "1f", sts, bins, designs, ys_root),
      StatsTable("cells", "cells", "d", sts, bins, designs, ys_root)>>

print_csv(sts, bins) ==
    PrintTables(sts, bins, SortStrs({sts[i]["design"] : i \in 1..Len(sts)}),
                common_parent(bins))

(***************************************************************************)
(* Specification SpecCsv: main runs every binary on every design, collects *)
(* the records of the runs whose artifact exists and renders them as       *)
(* tables (thing.py analyze --output csv, analyze.py --csv).               *)
(***************************************************************************)
CellsVerboseLine(n) == ToksLine(TRUE, <<w_Number, w_of, w_cells \o w_colon, n>>)
CellsCountLine(n) == ToksLine(TRUE, <<n, w_cells>>)
CellsLine(drv, n) == IF drv = "thing" THEN CellsVerboseLine(n) ELSE CellsCountLine(n)

\* The logs a run can produce: statistics and footer, the same with every
\* figure zero, statistics without footer, and nothing.
BatchLogs(drv) == {
    <<PrintMarkerLine, DesignHeaderLine, CellsLine(drv, d_3), EndLine,
      FooterLine(f_1_50, f_0_25, f_120_0)>>,
    <<PrintMarkerLine, DesignHeaderLine, CellsLine(drv, d_0), EndLine,
      FooterLine(f_0_00, f_0_00, f_120_0)>>,
    <<PrintMarkerLine, DesignHeaderLine, CellsLine(drv, d_3)>>,
    <<>> }

BinLists == {<<p_a_y1>>, <<p_a_y1, p_b_y2>>, <<p_b_y2, p_a_y1>>}
\* discover_designs returns the designs sorted.
DesignLists == {<<str_bar>>, <<str_bar, str_foo>>}

InitCsv ==
    /\ pc = "loop"
    /\ design = NoStr
    /\ pairs = <<>>
    /\ params = <<>>
    /\ tag = NoStr
    /\ output = <<>>
    /\ stats = EmptyStats
    /\ cell_cats = <<>>
    /\ ff_size = 0
    /\ result = <<>>
    /\ driver \in {"thing", "analyze"}
    /\ yosys_bins \in BinLists
    /\ design_list \in DesignLists
    /\ run_i = 0
    /\ all_stats = <<>>
    /\ csv = CsvOutInit
    /\ printed = <<>>
    /\ out_mode = "csv"
    /\ stderr = <<>>
    /\ tool_runs = <<>>
    /\ dump = "none"
    /\ tmp_path = "none"
    /\ status = "running"

RunBin == yosys_bins[(run_i \div Len(design_list)) + 1]
RunDesign == design_list[(run_i % Len(design_list)) + 1]
RunsLeft == run_i < Len(yosys_bins) * Len(design_list)

ParseBy(drv, log) == IF drv = "thing" THEN parse_stat(log) ELSE parse_output(log)

\* stats["design"] = tag; stats["yosys"] = str(yosys_bin)
Identify(st, tg, ys) == Put(Put(st, "design", tg), "yosys", ys)

\* print(f"Artifact not found: {ap}", file=sys.stderr)
ArtifactNotFound(tg) == [msg |-> "Artifact not found", tag |-> tg]
\* print("No results", file=sys.stderr)
NoResultsMsg == [msg |-> "No results"]
\* One invocation of the external tool.
Invocation(ys, tg) == [yosys |-> ys, tag |-> tg]

RunSkipped_abort ==
    /\ pc = "loop"
    /\ RunsLeft
    /\ stderr' = Append(stderr, ArtifactNotFound(RunDesign))
    /\ status' = "failure"
    /\ pc' = "failed"
    /\ UNCHANGED <<tagVars, parseVars, ffVars, batchVars, out_mode, tool_runs, dump,
                   tmp_path>>
\* The artifact of the run is absent: reported, no record, the loop goes on.
RunSkipped ==
    /\ pc = "loop"
    /\ RunsLeft
    /\ stderr' = Append(stderr, ArtifactNotFound(RunDesign))
    /\ run_i' = run_i + 1
    /\ UNCHANGED <<pc, tagVars, parseVars, ffVars, driver, yosys_bins, design_list,
                   all_stats, csv, printed, out_mode, tool_runs, dump, tmp_path, status>>

\* The artifact exists: the tool runs, its log is parsed, the record is kept.
RunAnalyzed ==
    /\ pc = "loop"
    /\ RunsLeft
    /\ tool_runs' = Append(tool_runs, Invocation(RunBin, RunDesign))
    /\ \E log \in BatchLogs(driver) :
           all_stats' = Append(all_stats, Identify(ParseBy(driver, log), RunDesign, RunBin))
    /\ run_i' = run_i + 1
    /\ UNCHANGED <<pc, tagVars, parseVars, ffVars, driver, yosys_bins, design_list,
                   csv, printed, out_mode, stderr, dump, tmp_path, status>>

\* if not all_stats: "No results", exit status 1
NoResults ==
    /\ pc = "loop"
    /\ ~RunsLeft
    /\ all_stats = <<>>
    /\ stderr' = Append(stderr, NoResultsMsg)
    /\ status' = "failure"
    /\ pc' = "failed"
    /\ UNCHANGED <<tagVars, parseVars, ffVars, batchVars, out_mode, tool_runs, dump,
                   tmp_path>>

\* thing.py: out.add_stats for every record, then out.out()
RenderCsvOut ==
    /\ pc = "loop"
    /\ ~RunsLeft
    /\ all_stats # <<>>
    /\ driver = "thing"
    /\ csv' = add_all_stats(csv, all_stats)
    /\ printed' = CsvOut_out(add_all_stats(csv, all_stats))
    /\ status' = "success"
    /\ pc' = "rendered"
    /\ UNCHANGED <<tagVars, parseVars, ffVars, driver, yosys_bins, design_list,
                   run_i, all_stats, out_mode, stderr, tool_runs, dump, tmp_path>>

\* analyze.py: print_csv(all_stats, args.yosys)
RenderPrintCsv ==
    /\ pc = "loop"
    /\ ~RunsLeft
    /\ all_stats # <<>>
    /\ driver = "analyze"
    /\ printed' = print_csv(all_stats, yosys_bins)
    /\ status' = "success"
    /\ pc' = "rendered"
    /\ UNCHANGED <<tagVars, parseVars, ffVars, driver, yosys_bins, design_list,
                   run_i, all_stats, csv, out_mode, stderr, tool_runs, dump, tmp_path>>

NextCsv == RunSkipped \/ RunAnalyzed \/ NoResults \/ RenderCsvOut \/ RenderPrintCsv

SpecCsv == InitCsv /\ [][NextCsv]_vars
(***************************************************************************)
(* Properties of the rendered tables.                                      *)
(***************************************************************************)
Rendered == pc = "rendered"

RowsAscending(t) ==
    \A j \in 1..(Len(t.rows) - 1) : StrLess(t.rows[j].design, t.rows[j + 1].design)
ColsAscending(t) ==
    \A i \in 1..(Len(t.cols) - 1) : StrLess(PathStr(t.cols[i]), PathStr(t.cols[i + 1]))

\* C4: every rendered grid lists the designs as rows in ascending
\* lexicographic order and the binaries as columns in ascending lexicographic
\* order, whatever the order in which the binaries were given.
C4_TablesSorted ==
    Rendered =>
        \A k \in 1..Len(printed) : RowsAscending(printed[k]) /\ ColsAscending(printed[k])

\* The part of C4 that the code keeps: rows are always ascending, and the
\* columns of CsvOut.out are ascending.
RowsSortedAndCsvOutColsSorted ==
    Rendered =>
        \A k \in 1..Len(printed) :
            /\ RowsAscending(printed[k])
            /\ driver = "thing" => ColsAscending(printed[k])

MetricKey(name) ==
    CASE name = "time" -> "time"
      [] name = "memory" -> "mem_mb"
      [] OTHER -> "cells"

\* A value of the table's metric was recorded for the pair.
Recorded(name, d, ys) ==
    \E i \in 1..Len(all_stats) :
        /\ all_stats[i]["design"] = d
        /\ all_stats[i]["yosys"] = ys
        /\ Has(all_stats[i], MetricKey(name))

\* C5: a cell of a rendered grid is blank exactly when no value of the metric
\* was recorded for its (design, binary) pair; a recorded value, a measured
\* zero included, is rendered as a number.
C5_BlankIffMissing ==
    Rendered =>
        \A k \in 1..Len(printed) :
            \A j \in 1..Len(printed[k].rows) :
                \A i \in 1..Len(printed[k].cols) :
                    (printed[k].rows[j].texts[i] = NoStr)
                        <=> ~Recorded(printed[k].name, printed[k].rows[j].design,
                                      printed[k].cols[i])

\* The part of C5 that the code keeps: a missing value is rendered blank,
\* never as a number.
MissingIsBlank ==
    Rendered =>
        \A k \in 1..Len(printed) :
            \A j \in 1..Len(printed[k].rows) :
                \A i \in 1..Len(printed[k].cols) :
                    ~Recorded(printed[k].name, printed[k].rows[j].design,
                              printed[k].cols[i])
                        => printed[k].rows[j].texts[i] = NoStr
(***************************************************************************)
(* Specification SpecE2e: run_mode_ff end to end on a log as the tool      *)
(* writes it: the marker, the design header or not, the line               *)
(* "Number of cells: N" and one line per cell type, N being the sum of the *)
(* counts.                                                                 *)
(***************************************************************************)
d_4 == <<52>>                                                \* "4"
d_6 == <<54>>                                                \* "6"
TypeCounts == {d_1, d_4, d_6}

\* The lists of distinct cell types.
TypeLists ==
    {ts \in SeqsUpTo(CellTypes, Cardinality(CellTypes)) :
        \A i, j \in 1..Len(ts) : i # j => ts[i] # ts[j]}

TypeLine(t, n) == ToksLine(TRUE, <<t, n>>)

RECURSIVE SumDigits(_)
SumDigits(ns) == IF ns = <<>> THEN 0 ELSE ToInt(Head(ns)) + SumDigits(Tail(ns))

\* The text of the statistics section for the types ts with the counts ns.
StatLog(header, ts, ns) ==
    <<PrintMarkerLine>> \o header
        \o <<CellsVerboseLine(IntToStr(SumDigits(ns)))>>
        \o [i \in 1..Len(ts) |-> TypeLine(ts[i], ns[i])]

InitE2e ==
    /\ pc = "run"
    /\ design = NoStr
    /\ pairs = <<>>
    /\ params = <<>>
    /\ tag = str_fft
    /\ \E ts \in TypeLists :
           \E ns \in [1..Len(ts) -> TypeCounts] :
               \E header \in {<<>>, <<DesignHeaderLine>>} :
                   output = StatLog(header, ts, ns)
    /\ stats = EmptyStats
    /\ \E S \in SUBSET CellTypes : cell_cats \in [S -> Cats]
    /\ ff_size = FfSizeDefault
    /\ result = <<>>
    /\ NoBatch
    /\ NoEnv

NextE2e == RunModeFf

SpecE2e == InitE2e /\ [][NextE2e]_vars

\* The number N of the line "Number of cells: N" of the log.
RECURSIVE ReportedCells(_, _)
ReportedCells(out, i) ==
    IF i > Len(out) THEN -1
    ELSE IF out[i].k = "toks" /\ Len(out[i].toks) = 4 /\ out[i].toks[1] = w_Number
         THEN ToInt(out[i].toks[4])
         ELSE ReportedCells(out, i + 1)

\* The summed counts of the type lines whose type the taxonomy puts in cat.
RECURSIVE LinesOfCategory(_, _, _, _)
LinesOfCategory(out, i, cats, cat) ==
    IF i > Len(out) THEN 0
    ELSE (IF out[i].k = "toks" /\ Len(out[i].toks) = 2
             /\ CategoryOf(cats, out[i].toks[1]) = cat
          THEN ToInt(out[i].toks[2]) ELSE 0)
         + LinesOfCategory(out, i + 1, cats, cat)

\* C11: parse, then classify: for a log that reports N cells with one line per
\* cell type, the record has cells = N, the result has total = N, every
\* category total is the summed count of the types the taxonomy puts in it,
\* and ratio = seq / total, 0 when total is 0.
C11_EndToEnd ==
    pc = "ff" =>
        /\ parse_stat(output)["cells"] = ReportedCells(output, 1)
        /\ result.total = ReportedCells(output, 1)
        /\ \A cat \in Cats \cup {"other"} :
               result[cat] = LinesOfCategory(output, 1, cell_cats, cat)
        /\ IF result.total = 0 THEN result.ratio.num = 0
           ELSE result.ratio.num * result.total = result.seq * result.ratio.den

\* C11 witness: "Number of cells: 10" with "$_DFF_P_ 4" and "$_AND_ 6" under
\* the taxonomy {$_DFF_P_: seq, $_AND_: comb} gave seq 4, comb 6, other 0,
\* total 10 and ratio 4/10.
C11_Witness ==
    /\ pc = "ff"
    /\ output = StatLog(<<DesignHeaderLine>>, <<t_DFF_P, t_AND>>, <<d_4, d_6>>)
    /\ cell_cats = (t_DFF_P :> "seq") @@ (t_AND :> "comb")
    /\ parse_stat(output)["cells"] = 10
    /\ result.seq = 4 /\ result.comb = 6 /\ result.other = 0 /\ result.total = 10
    /\ result.ratio = Ratio(4, 10)
(***************************************************************************)
(* The taxonomy dump: load_cell_groups and dump_cell_groups.               *)
(* A JSON value is a record with its type t: an object has its members as  *)
(* a sequence of <<name, value>>, a list has its items.                    *)
(***************************************************************************)
JObject(members) == [t |-> "object", members |-> members]
JList(items) == [t |-> "list", items |-> items]
JNumber == [t |-> "number"]

SEQ_GROUPS == {"reg", "reg_ff", "reg_latch"}
MEM_GROUPS == {"mem"}

\* The category of a group of the dump.
GroupCat(group_name) ==
    IF group_name \in SEQ_GROUPS THEN "seq"
    ELSE IF group_name \in MEM_GROUPS THEN "mem"
    ELSE "comb"

\* for t in types: cats[t] = cat
RECURSIVE SetTypes(_, _, _)
SetTypes(cats, types, cat) ==
    IF types = <<>> THEN cats
    ELSE SetTypes((Head(types) :> cat) @@ cats, Tail(types), cat)

\* The loop of load_cell_groups over groups.items(); iterating over a value
\* that is no list raises TypeError.
RECURSIVE LoadGroups(_, _)
LoadGroups(cats, groups) ==
    IF groups = <<>> THEN [cats |-> cats]
    ELSE IF Head(groups)[2].t # "list" THEN [exception |-> "TypeError"]
    ELSE LoadGroups(SetTypes(cats, Head(groups)[2].items, GroupCat(Head(groups)[1])),
                    Tail(groups))

\* groups = data.get("groups", {}); groups.items()
GroupsOf(data) ==
    IF DictHas(data.members, "groups") THEN DictGet(data.members, "groups", JNumber)
    ELSE JObject(<<>>)

LoadFrom(groups) ==
    IF groups.t # "object" THEN [exception |-> "AttributeError"]
    ELSE LoadGroups(<<>>, groups.members)

\* load_cell_groups on the state of the dump file: missing, or its text, which
\* is no JSON document or is the document doc.
load_cell_groups(file) ==
    IF file.state = "missing" THEN [exception |-> "FileNotFoundError"]
    ELSE IF file.json = "invalid" THEN [exception |-> "JSONDecodeError"]
    ELSE IF file.doc.t # "object" THEN [exception |-> "AttributeError"]
    ELSE LoadFrom(GroupsOf(file.doc))

MissingFile == [state |-> "missing"]
\* The file as NamedTemporaryFile leaves it: empty, which is no JSON document.
EmptyFile == [state |-> "exists", json |-> "invalid", text |-> "empty"]
GarbledFile == [state |-> "exists", json |-> "invalid", text |-> "garbled"]
DocFile(doc) == [state |-> "exists", json |-> "valid", doc |-> doc]

\* What the tool can do when run for the dump: how subprocess.run ends and the
\* dump file it leaves behind.
ToolDid(run, file) == [run |-> run, file |-> file]

GroupsDoc ==
    JObject(<<<<"groups", JObject(<<<<"reg_ff", JList(<<t_DFF_P>>)>>,
                                    <<"bin", JList(<<t_AND>>)>>>>)>>>>)

DumpOutcomes == {
    ToolDid("returned", DocFile(GroupsDoc)),
    ToolDid("returned", DocFile(JObject(<<<<"groups", JObject(<<>>)>>>>))),
    ToolDid("returned", DocFile(JObject(<<>>))),
    ToolDid("returned", DocFile(JList(<<>>))),
    ToolDid("returned", DocFile(JObject(<<<<"groups", JList(<<>>)>>>>))),
    ToolDid("returned", DocFile(JObject(<<<<"groups", JObject(<<<<"reg", JNumber>>>>)>>>>))),
    ToolDid("returned", GarbledFile),
    ToolDid("returned", EmptyFile),
    ToolDid("returned", MissingFile),
    ToolDid("CalledProcessError", EmptyFile),
    ToolDid("FileNotFoundError", EmptyFile),
    ToolDid("PermissionError", EmptyFile) }

\* The try block: subprocess.run(check=True), then load_cell_groups.
DumpTry(d) ==
    IF d.run # "returned" THEN [exception |-> d.run] ELSE load_cell_groups(d.file)

FailedToRun == [msg |-> "Warning: Failed to run Yosys cell dump"]
CouldNotParse == [msg |-> "Warning: Could not parse Yosys cell dump"]
ClassificationFailed == [msg |-> "Warning: Cell classification failed"]

\* The except clauses: what dump_cell_groups returns or lets escape, and what
\* it writes to standard error.
DumpHandled(tried) ==
    IF "cats" \in DOMAIN tried THEN [ret |-> tried, stderr |-> <<>>]
    ELSE IF tried.exception = "CalledProcessError"
         THEN [ret |-> [cats |-> <<>>], stderr |-> <<FailedToRun>>]
    ELSE IF tried.exception \in {"FileNotFoundError", "JSONDecodeError"}
         THEN [ret |-> [cats |-> <<>>], stderr |-> <<CouldNotParse>>]
    ELSE [ret |-> tried, stderr |-> <<>>]

TmpAfter_unless_raised(d, tried) ==
    IF d.file.state = "missing" THEN "absent"
    ELSE IF "exception" \in DOMAIN tried THEN "exists" ELSE "removed"
\* The finally clause: if os.path.exists(tmp_path): os.unlink(tmp_path)
TmpAfter(d, tried) == IF d.file.state = "missing" THEN "absent" ELSE "removed"

dump_cell_groups(d) ==
    [ret |-> DumpHandled(DumpTry(d)).ret,
     stderr |-> DumpHandled(DumpTry(d)).stderr,
     tmp |-> TmpAfter(d, DumpTry(d))]
(***************************************************************************)
(* Specification SpecFfBatch: main in ff mode.  The taxonomy is dumped by  *)
(* the first binary, then every design is classified; the results are      *)
(* printed as semicolon-separated rows.                                    *)
(***************************************************************************)
FfBatchLogs == {
    StatLog(<<DesignHeaderLine>>, <<t_DFF_P, t_AND>>, <<d_4, d_6>>),
    StatLog(<<DesignHeaderLine>>, <<t_dff>>, <<d_1>>),
    <<>> }

InitFfBatch ==
    /\ pc = "dump"
    /\ design = NoStr
    /\ pairs = <<>>
    /\ params = <<>>
    /\ tag = NoStr
    /\ output = <<>>
    /\ stats = EmptyStats
    /\ cell_cats = <<>>
    /\ ff_size = FfSizeDefault
    /\ result = <<>>
    /\ driver = "thing"
    /\ yosys_bins = <<p_a_y1>>
    /\ design_list \in DesignLists
    /\ run_i = 0
    /\ all_stats = <<>>
    /\ csv = <<>>
    /\ printed = <<>>
    /\ out_mode = "csv"
    /\ stderr = <<>>
    /\ tool_runs = <<>>
    /\ dump \in DumpOutcomes
    /\ tmp_path = "none"
    /\ status = "running"

\* if not cell_cats: print("Warning: Cell classification failed. ...")
WarnIfEmpty(cats) == IF cats = <<>> THEN <<ClassificationFailed>> ELSE <<>>

\* dump_cell_groups has ended as r: an exception it let escape ends the
\* program with a traceback, a taxonomy is kept and warned about when empty.
FfStarted(r) ==
    /\ tmp_path' = r.tmp
    /\ IF "exception" \in DOMAIN r.ret
       THEN /\ stderr' = stderr \o r.stderr
            /\ status' = "failure"
            /\ pc' = "crashed"
            /\ UNCHANGED cell_cats
       ELSE /\ stderr' = stderr \o r.stderr \o WarnIfEmpty(r.ret.cats)
            /\ cell_cats' = r.ret.cats
            /\ pc' = "loop"
            /\ UNCHANGED status

\* cell_cats = dump_cell_groups(args.yosys[0]) and the warning of main
FfStart ==
    /\ pc = "dump"
    /\ FfStarted(dump_cell_groups(dump))
    /\ UNCHANGED <<tagVars, parseVars, ff_size, result, batchVars, out_mode, tool_runs,
                   dump>>

FfRunsLeft == run_i < Len(design_list)
FfRunDesign == design_list[run_i + 1]

\* run_mode_ff: the artifact is absent
RunFfSkipped ==
    /\ pc = "loop"
    /\ FfRunsLeft
    /\ stderr' = Append(stderr, ArtifactNotFound(FfRunDesign))
    /\ run_i' = run_i + 1
    /\ UNCHANGED <<pc, tagVars, parseVars, ffVars, driver, yosys_bins, design_list,
                   all_stats, csv, printed, out_mode, tool_runs, dump, tmp_path, status>>

\* run_mode_ff: the artifact exists; results.append(result)
RunFf ==
    /\ pc = "loop"
    /\ FfRunsLeft
    /\ tool_runs' = Append(tool_runs, Invocation(yosys_bins[1], FfRunDesign))
    /\ \E log \in FfBatchLogs :
           all_stats' = Append(all_stats, run_mode_ff(log, FfRunDesign, cell_cats, ff_size))
    /\ run_i' = run_i + 1
    /\ UNCHANGED <<pc, tagVars, parseVars, ffVars, driver, yosys_bins, design_list,
                   csv, printed, out_mode, stderr, dump, tmp_path, status>>

\* if not results: "No results", exit status 1
FfNoResults ==
    /\ pc = "loop"
    /\ ~FfRunsLeft
    /\ all_stats = <<>>
    /\ stderr' = Append(stderr, NoResultsMsg)
    /\ status' = "failure"
    /\ pc' = "failed"
    /\ UNCHANGED <<tagVars, parseVars, ffVars, batchVars, out_mode, tool_runs, dump,
                   tmp_path>>

\* The integer columns of one row of the ff report.
FfRow(res) ==
    [design |-> res.design,
     texts |-> <<IntToStr(res.seq), IntToStr(res.comb), IntToStr(res.other),
                 IntToStr(res.total), IntToStr(res.abc_area), IntToStr(res.ff_area),
                 IntToStr(res.total_area)>>]

\* The rows printed for the results.
FfReport ==
    /\ pc = "loop"
    /\ ~FfRunsLeft
    /\ all_stats # <<>>
    /\ printed' = [i \in 1..Len(all_stats) |-> FfRow(all_stats[i])]
    /\ status' = "success"
    /\ pc' = "rendered"
    /\ UNCHANGED <<tagVars, parseVars, ffVars, driver, yosys_bins, design_list,
                   run_i, all_stats, csv, out_mode, stderr, tool_runs, dump, tmp_path>>

NextFfBatch == FfStart \/ RunFfSkipped \/ RunFf \/ FfNoResults \/ FfReport

SpecFfBatch == InitFfBatch /\ [][NextFfBatch]_vars

\* The tool wrote a dump that is a 'groups' mapping of group name to type list.
IsTypeLists(groups) ==
    \A i \in 1..Len(groups) : groups[i][2].t = "list"
IsGroupsMapping(doc) ==
    /\ doc.t = "object"
    /\ DictHas(doc.members, "groups")
    /\ GroupsOf(doc).t = "object"
    /\ IsTypeLists(GroupsOf(doc).members)
MappingProduced(d) ==
    /\ d.run = "returned"
    /\ d.file.state = "exists"
    /\ d.file.json = "valid"
    /\ IsGroupsMapping(d.file.doc)

AllOther(res) == res.seq = 0 /\ res.mem = 0 /\ res.comb = 0 /\ res.other = res.total

\* C12: whenever the tool cannot produce the taxonomy mapping, no exception
\* escapes dump_cell_groups, the taxonomy is empty, the ff run continues and
\* every cell type is classified as 'other'.
C12_DumpFailureDegrades ==
    (pc # "dump" /\ ~MappingProduced(dump)) =>
        /\ pc # "crashed"
        /\ cell_cats = <<>>
        /\ \A i \in 1..Len(all_stats) : AllOther(all_stats[i])

\* The part of C12 that the code keeps: the failures it catches (the process
\* fails, the binary or the dump is missing, the dump is no JSON document)
\* degrade to the empty taxonomy and all-'other' results.
CaughtFailuresDegrade ==
    (pc # "dump" /\ "exception" \in DOMAIN DumpTry(dump)
     /\ DumpTry(dump).exception
            \in {"CalledProcessError", "FileNotFoundError", "JSONDecodeError"}) =>
        /\ pc # "crashed"
        /\ cell_cats = <<>>
        /\ \A i \in 1..Len(all_stats) : AllOther(all_stats[i])

IsWarning(m) ==
    m \in {FailedToRun, CouldNotParse, ClassificationFailed}
Warnings == Cardinality({i \in 1..Len(stderr) : IsWarning(stderr[i])})

\* C16: in an ff batch that goes on, exactly one warning is emitted when the
\* taxonomy is unavailable, whichever failure caused it, and none when the
\* taxonomy was loaded.
C16_WarnedOnce ==
    pc \notin {"dump", "crashed"} =>
        Warnings = IF cell_cats = <<>> THEN 1 ELSE 0

\* The part of C16 that the code keeps: no warning when the taxonomy was
\* loaded, one when it was loaded empty, and the warning of main whenever the
\* taxonomy is empty.
WarnedWhenEmpty ==
    pc \notin {"dump", "crashed"} =>
        /\ cell_cats # <<>> => Warnings = 0
        /\ cell_cats = <<>> => Warnings \in {1, 2} /\ \E i \in 1..Len(stderr) : stderr[i] = ClassificationFailed
(***************************************************************************)
(* Properties of the batch of SpecCsv.                                     *)
(***************************************************************************)
\* The binary and the design of the k-th run of the batch, k from 0.
BinOfRun(k) == yosys_bins[(k \div Len(design_list)) + 1]
DesignOfRun(k) == design_list[(k % Len(design_list)) + 1]

NotFoundCount ==
    Cardinality({i \in 1..Len(stderr) : stderr[i].msg = "Artifact not found"})

\* The invocations are those of some of the runs done, in run order.
InvokedInRunOrder ==
    \E f \in [1..Len(tool_runs) -> 0..(run_i - 1)] :
        /\ \A i, j \in 1..Len(tool_runs) : i < j => f[i] < f[j]
        /\ \A i \in 1..Len(tool_runs) :
               tool_runs[i] = Invocation(BinOfRun(f[i]), DesignOfRun(f[i]))

str_jpeg == <<106, 112, 101, 103>>                           \* "jpeg"
str_fft64 == <<102, 102, 116, 54, 52>>                       \* "fft64"
str_fft1024 == <<102, 102, 116, 49, 48, 50, 52>>             \* "fft1024"
str_SYNTH == <<45, 83, 89, 78, 84, 72>>                      \* "-SYNTH"

\* The keys of design_map(): the lowered class names of scripts.
DesignMapKeys == {str_ibex, str_fft64, str_fft1024}

\* --design X, or the list of --auto.
BasicDesignLists == {<<str_jpeg>>, <<str_ibex>>, <<str_jpeg, str_ibex, str_fft64>>}

\* The text yosys_log_end finds in the log: the line "End of script. ..., CPU:
\* user Us system Ss, MEM: M MB peak", the line without the figures, or none.
EndWithFigures == [k |-> "end", user |-> f_1_50, sys |-> f_0_25, mem |-> f_120_0]
BasicEnds == {EndWithFigures, EndLine, [k |-> "no_marker"]}

UnexpectedFormatting == [msg |-> "Unexpected formatting"]
DesignNotFound(d) == [msg |-> "Design not found in scripts module", tag |-> d]

\* CsvOut.add with a result that matches the pattern of the figures.
CsvOut_add(c, ys, tg, res) ==
    [time |-> DictSet(c.time, <<ys, tg>>, ToFloat(res.user) + ToFloat(res.sys)),
     memory |-> DictSet(c.memory, <<ys, tg>>, ToFloat(res.mem)),
     cells |-> c.cells]

\* HumanOut.add: the two lines printed.
HumanLines(ys, tg, res) == <<[yosys |-> ys, tag |-> tg], res>>

InitBasic ==
    /\ pc = "loop"
    /\ design = NoStr
    /\ pairs = <<>>
    /\ params = <<>>
    /\ tag = NoStr
    /\ output = <<>>
    /\ stats = EmptyStats
    /\ cell_cats = <<>>
    /\ ff_size = 0
    /\ result = <<>>
    /\ driver = "basic"
    /\ yosys_bins \in BinLists
    /\ design_list \in BasicDesignLists
    /\ run_i = 0
    /\ all_stats = <<>>
    /\ csv = CsvOutInit
    /\ printed = <<>>
    /\ out_mode \in {"csv", "human"}
    /\ stderr = <<>>
    /\ tool_runs = <<>>
    /\ dump = "none"
    /\ tmp_path = "none"
    /\ status = "running"

\* main loops over the designs, single_run over the binaries.
BasicDesign == design_list[(run_i \div Len(yosys_bins)) + 1]
BasicBin == yosys_bins[(run_i % Len(yosys_bins)) + 1]
BasicTag == BasicDesign \o str_SYNTH

\* single_run: the design is not in design_map(); no binary is run for it.
SingleRunUnknown ==
    /\ pc = "loop"
    /\ RunsLeft
    /\ BasicDesign \notin DesignMapKeys
    /\ stderr' = Append(stderr, DesignNotFound(BasicDesign))
    /\ run_i' = run_i + Len(yosys_bins)
    /\ UNCHANGED <<pc, tagVars, parseVars, ffVars, driver, yosys_bins, design_list,
                   all_stats, csv, printed, out_mode, tool_runs, dump, tmp_path, status>>

\* out.add(yosys, tag, res) for the text res found in the log.
OutAdd(res) ==
    IF out_mode = "human"
    THEN /\ printed' = printed \o HumanLines(BasicBin, BasicTag, res)
         /\ UNCHANGED <<csv, stderr>>
    ELSE IF "user" \in DOMAIN res
    THEN /\ csv' = CsvOut_add(csv, BasicBin, BasicTag, res)
         /\ UNCHANGED <<printed, stderr>>
    ELSE /\ stderr' = Append(stderr, UnexpectedFormatting)
         /\ UNCHANGED <<csv, printed>>

\* run_mode_basic: the tool runs and exits with status 0.
RunBasic ==
    /\ pc = "loop"
    /\ RunsLeft
    /\ BasicDesign \in DesignMapKeys
    /\ tool_runs' = Append(tool_runs, Invocation(BasicBin, BasicDesign))
    /\ \E res \in BasicEnds : OutAdd(res)
    /\ run_i' = run_i + 1
    /\ UNCHANGED <<pc, tagVars, parseVars, ffVars, driver, yosys_bins, design_list,
                   all_stats, out_mode, dump, tmp_path, status>>

\* run_mode_basic: the tool exits with another status; check_output raises
\* CalledProcessError, which nothing catches.
RunBasicFailed ==
    /\ pc = "loop"
    /\ RunsLeft
    /\ BasicDesign \in DesignMapKeys
    /\ tool_runs' = Append(tool_runs, Invocation(BasicBin, BasicDesign))
    /\ status' = "failure"
    /\ pc' = "crashed"
    /\ UNCHANGED <<tagVars, parseVars, ffVars, batchVars, out_mode, stderr, dump,
                   tmp_path>>

\* out.out(); return
BasicOut ==
    /\ pc = "loop"
    /\ ~RunsLeft
    /\ printed' = IF out_mode = "csv" THEN CsvOut_out(csv) ELSE printed
    /\ status' = "success"
    /\ pc' = "done"
    /\ UNCHANGED <<tagVars, parseVars, ffVars, driver, yosys_bins, design_list,
                   run_i, all_stats, csv, out_mode, stderr, tool_runs, dump, tmp_path>>

NextBasic == SingleRunUnknown \/ RunBasic \/ RunBasicFailed \/ BasicOut

SpecBasic == InitBasic /\ [][NextBasic]_vars

\* Some run of the batch gave a record that the output form can use.
UsableRecord == IF out_mode = "csv" THEN csv.time # <<>> ELSE printed # <<>>

\* C15: a batch that ends with no usable record ends with a failure status
\* and a report on standard error; one that has a record renders it and ends
\* without failure.
C15_EmptyBatchFails ==
    pc = "done" =>
        IF UsableRecord THEN status = "success" /\ printed # <<>>
        ELSE status = "failure" /\ stderr # <<>> /\ printed = <<>>

\* The part of C15 that the code keeps in these modes: a batch with a usable
\* record renders it and ends with success, and an empty one renders nothing.
RecordsRendered ==
    pc = "done" =>
        /\ status = "success"
        /\ UsableRecord <=> printed # <<>>
(***************************************************************************)
(* Properties of the grids and of the column labels of SpecCsv.            *)
(***************************************************************************)
TableNames == [k \in 1..Len(printed) |-> printed[k].name]

\* The grid named name has a cell for the design d and the binary ys.
HasCell(name, d, ys) ==
    \E k \in 1..Len(printed) :
        /\ printed[k].name = name
        /\ \E j \in 1..Len(printed[k].rows) : printed[k].rows[j].design = d
        /\ \E i \in 1..Len(printed[k].cols) : printed[k].cols[i] = ys

\* C17: the report consists of the three tables time, memory, cells, and every
\* (design, binary) value recorded for memory or for the cell count has its
\* cell in its own grid, whether or not a time was recorded for the pair.
C17_GridsIndependent ==
    Rendered =>
        /\ TableNames = <<"time", "memory", "cells">>
        /\ \A name \in {"memory", "cells"} :
               \A r \in 1..Len(all_stats) :
                   Recorded(name, all_stats[r]["design"], all_stats[r]["yosys"])
                       => HasCell(name, all_stats[r]["design"], all_stats[r]["yosys"])

\* The part of C17 that the code keeps: print_csv of analyze.py always prints
\* the three tables with a cell for every record, and CsvOut.out has a cell in
\* every grid for every pair with a recorded time.
GridsFollowTime ==
    Rendered =>
        /\ driver = "analyze" => TableNames = <<"time", "memory", "cells">>
        /\ \A name \in {"time", "memory", "cells"} :
               \A r \in 1..Len(all_stats) :
                   (Recorded("time", all_stats[r]["design"], all_stats[r]["yosys"])
                    /\ \E k \in 1..Len(printed) : printed[k].name = name)
                       => HasCell(name, all_stats[r]["design"], all_stats[r]["yosys"])

\* The label is the path of the binary from one of its components on: it keeps
\* at least the final component.
KeepsFinalComponent(label, path) ==
    \E n \in 1..Len(path) : label = JoinParts(SubSeq(path, n, Len(path)))

\* C18: every column is labelled by the binary's path relative to the deepest
\* common ancestor directory of the binaries; the label keeps at least the
\* final component of the path and distinct binaries have distinct labels,
\* also for a single binary.
C18_ColumnLabels ==
    Rendered =>
        \A k \in 1..Len(printed) :
            /\ \A i \in 1..Len(printed[k].cols) :
                   KeepsFinalComponent(printed[k].header[i], printed[k].cols[i])
            /\ \A i, j \in 1..Len(printed[k].cols) :
                   printed[k].cols[i] # printed[k].cols[j]
                       => printed[k].header[i] # printed[k].header[j]

\* The part of C18 that the code keeps: in a grid with several columns the
\* labels are the paths from the first differing component on.
LabelsOfSeveralColumns ==
    Rendered =>
        \A k \in 1..Len(printed) :
            Len(printed[k].cols) > 1 =>
                \A i \in 1..Len(printed[k].cols) :
                    KeepsFinalComponent(printed[k].header[i], printed[k].cols[i])
(***************************************************************************)
(* Per-pass timing and the human form of a record.                         *)
(***************************************************************************)
\* A line "P%  C calls  S sec  NAME" of the output of the tool run with -d.
PassLine(pct, calls, secs, name) ==
    [k |-> "pass", pct |-> pct, calls |-> calls, secs |-> secs, name |-> name]

\* sorted(pass_times, key=lambda x: -x[1]): a stable sort, so an entry goes
\* behind the entries that have at least its seconds.
RECURSIVE InsertBySecs(_, _)
InsertBySecs(x, sorted) ==
    IF sorted = <<>> THEN <<x>>
    ELSE IF Head(sorted)[2] >= x[2] THEN <<Head(sorted)>> \o InsertBySecs(x, Tail(sorted))
    ELSE <<x>> \o sorted

RECURSIVE SortBySecs(_, _)
SortBySecs(sorted, rest) ==
    IF rest = <<>> THEN sorted
    ELSE SortBySecs(InsertBySecs(Head(rest), sorted), Tail(rest))

\* The tuples (name, secs, count) of the pass lines, in the order of the text.
RECURSIVE PassTimes(_)
PassTimes(out) ==
    IF out = <<>> THEN <<>>
    ELSE (IF Head(out).k = "pass"
          THEN <<<<Head(out).name, ToFloat(Head(out).secs), ToInt(Head(out).calls)>>>>
          ELSE <<>>)
         \o PassTimes(Tail(out))

parse_detailed_timing(out) == SortBySecs(<<>>, PassTimes(out))

\* run_mode_analyze once the artifact exists.
WithPassTiming(st, out, detailed_timing) ==
    IF detailed_timing THEN Put(st, "pass_timing", parse_detailed_timing(out)) ELSE st
run_mode_analyze(out, ys, tg, detailed_timing) ==
    WithPassTiming(Identify(parse_stat(out), tg, ys), out, detailed_timing)

RECURSIVE SumSecs(_)
SumSecs(pass_times) ==
    IF pass_times = <<>> THEN 0 ELSE Head(pass_times)[2] + SumSecs(Tail(pass_times))

TopN == 10
\* pass_times[:top_n]
Shown(pass_times, top_n) ==
    IF top_n = None \/ Len(pass_times) <= top_n THEN pass_times
    ELSE SubSeq(pass_times, 1, top_n)

\* One line of format_pass_timing; the percentage is kept as the exact quotient.
PassText(p, total) ==
    [k |-> "pass", name |-> p[1], secs |-> p[2],
     pct |-> IF total > 0 THEN Ratio(p[2] * 100, total) ELSE RatioZero,
     count_str |-> IF p[3] > 1 THEN p[3] ELSE None]

MorePasses(pass_times, top_n, total) ==
    IF top_n # None /\ Len(pass_times) > top_n
    THEN <<[k |-> "more", passes |-> Len(pass_times) - top_n,
            pct |-> IF total > 0
                    THEN Ratio((total - SumSecs(Shown(pass_times, top_n))) * 100, total)
                    ELSE RatioZero]>>
    ELSE <<>>

\* format_pass_timing, for a non-empty pass_times
format_pass_timing(pass_times, top_n) ==
    [i \in 1..Len(Shown(pass_times, top_n)) |->
        PassText(Shown(pass_times, top_n)[i], SumSecs(pass_times))]
    \o MorePasses(pass_times, top_n, SumSecs(pass_times))

\* stats.get(key, [])
GetOrEmpty(st, key) == IF Has(st, key) THEN st[key] ELSE <<>>

\* The first line of the human form.
HeaderText(st, bins) ==
    [k |-> "header",
     yosys |-> IF Len(bins) > 1 THEN st["yosys"][Len(st["yosys"])] ELSE NoStr,
     design |-> st["design"],
     user |-> GetOrNone(st, "user_time"),
     sys |-> GetOrNone(st, "sys_time"),
     mem |-> GetOrNone(st, "mem_mb")]

\* if abc_nd: print(f"  ABC: {abc_nd} nodes, {abc_lev} levels")
AbcText(st) ==
    IF GetOrNone(st, "abc_nd") \notin {None, 0}
    THEN <<[k |-> "abc", nd |-> st["abc_nd"], lev |-> GetOrNone(st, "abc_lev")]>>
    ELSE <<>>

TopTimeText(top_times) ==
    IF top_times # <<>>
    THEN <<[k |-> "top_time",
            parts |-> [i \in 1..Len(top_times) |->
                          [pct |-> top_times[i][2], name |-> top_times[i][1],
                           count |-> top_times[i][3]]]]>>
    ELSE <<>>

TimingText_both(pass_timing, top_times, verbose) ==
    (IF pass_timing # <<>>
     THEN <<[k |-> "pass_timing"]>>
          \o format_pass_timing(pass_timing, IF verbose THEN None ELSE TopN)
     ELSE <<>>)
    \o TopTimeText(top_times)
\* if pass_timing: the block of the passes; else: the top-time line, if any
TimingText(pass_timing, top_times, verbose) ==
    IF pass_timing # <<>>
    THEN <<[k |-> "pass_timing"]>>
         \o format_pass_timing(pass_timing, IF verbose THEN None ELSE TopN)
    ELSE TopTimeText(top_times)

\* HumanOut.add_stats: the lines printed for one record.
HumanOut_add_stats(st, bins, verbose) ==
    <<HeaderText(st, bins)>> \o AbcText(st)
        \o TimingText(GetOrEmpty(st, "pass_timing"), GetOrEmpty(st, "top_times"), verbose)
        \o <<[k |-> "blank"]>>
(***************************************************************************)
(* Specification SpecHuman: thing.py analyze with the human output, with   *)
(* or without --detailed-timing and --verbose: one run is parsed by        *)
(* run_mode_analyze and its record printed by HumanOut.add_stats.          *)
(***************************************************************************)
n_opt == <<111, 112, 116>>                                   \* "opt"

TimingLines == {
    PassLine(d_10, d_2, f_0_25, n_abc),
    PassLine(d_10, d_1, f_1_50, n_opt),
    PassLine(d_0, d_1, f_0_00, n_top),
    TimeSpentLine(<<[pct |-> d_10, count |-> d_2, name |-> n_abc, secs |-> d_3]>>),
    TimeSpentLine(<<>>),
    FooterLine(f_1_50, f_0_25, f_120_0) }

InitHuman ==
    /\ pc = "run"
    /\ design = NoStr
    /\ pairs = <<>>
    /\ params = <<>>
    /\ tag = str_bar
    /\ output \in SeqsUpTo(TimingLines, MaxTimingLines)
    /\ stats = EmptyStats
    /\ cell_cats = <<>>
    /\ ff_size = 0
    /\ result = <<>>
    /\ driver = "thing"
    /\ yosys_bins \in {<<p_a_y1>>, <<p_a_y1, p_b_y2>>}
    /\ design_list = <<str_bar>>
    /\ run_i = 0
    /\ all_stats = <<>>
    /\ csv = <<>>
    /\ printed = <<>>
    /\ out_mode = "human"
    /\ stderr = <<>>
    /\ tool_runs = <<>>
    /\ dump = "none"
    /\ tmp_path = "none"
    /\ status = "running"

\* stats = run_mode_analyze(yosys_bin, tag, flow, detailed_timing)
RunModeAnalyze ==
    /\ pc = "run"
    /\ tool_runs' = Append(tool_runs, Invocation(yosys_bins[1], tag))
    /\ \E detailed_timing \in BOOLEAN :
           stats' = run_mode_analyze(output, yosys_bins[1], tag, detailed_timing)
    /\ pc' = "analyzed"
    /\ UNCHANGED <<tagVars, output, ffVars, batchVars, out_mode, stderr, dump, tmp_path,
                   status>>

\* out.add_stats(s, args.yosys)
HumanAddStats ==
    /\ pc = "analyzed"
    /\ \E verbose \in BOOLEAN :
           printed' = HumanOut_add_stats(stats, yosys_bins, verbose)
    /\ status' = "success"
    /\ pc' = "printed"
    /\ UNCHANGED <<tagVars, parseVars, ffVars, driver, yosys_bins, design_list, run_i,
                   all_stats, csv, out_mode, stderr, tool_runs, dump, tmp_path>>

NextHuman == RunModeAnalyze \/ HumanAddStats

SpecHuman == InitHuman /\ [][NextHuman]_vars

PrintedKind(kind) == \E i \in 1..Len(printed) : printed[i].k = kind

NonIncreasingSecs(pass_timing) ==
    \A i \in 1..(Len(pass_timing) - 1) : pass_timing[i][2] >= pass_timing[i + 1][2]

\* The record has a per-pass timing sequence that is not empty.
HasPassTiming == Has(stats, "pass_timing") /\ stats["pass_timing"] # <<>>
\* Top-time tuples were parsed.
HasTopTimes == Has(stats, "top_times") /\ stats["top_times"] # <<>>

\* C19: the per-pass timing sequence is ordered by non-increasing seconds and
\* takes precedence in the human form: when it is present and not empty its
\* block is printed and the 'top time' line is not; otherwise the 'top time'
\* line is printed exactly when top-time tuples were parsed; never both.
C19_PassTimingPrecedence ==
    /\ Has(stats, "pass_timing") => NonIncreasingSecs(stats["pass_timing"])
    /\ pc = "printed" =>
           /\ HasPassTiming => PrintedKind("pass_timing") /\ ~PrintedKind("top_time")
           /\ ~HasPassTiming =>
                  /\ ~PrintedKind("pass_timing")
                  /\ PrintedKind("top_time") <=> HasTopTimes
           /\ ~(PrintedKind("pass_timing") /\ PrintedKind("top_time"))

\* C19 witness: a record with both a per-pass timing sequence of two passes,
\* the slower one parsed last, and top-time tuples was printed with the block
\* of the passes.
C19_Witness ==
    /\ pc = "printed"
    /\ HasPassTiming
    /\ HasTopTimes
    /\ Len(stats["pass_timing"]) = 2
    /\ stats["pass_timing"][1][1] = n_opt
    /\ PassTimes(output)[1][1] = n_abc
    /\ PrintedKind("pass")
====
